---- MODULE Spec2Model ----
(***************************************************************************)
(* In-memory task-list HTTP service (src/main.go).                         *)
(*                                                                         *)
(* The model has one process per in-flight request (net/http runs every    *)
(* request on its own goroutine).  A process receives a request, the       *)
(* ServeMux of main() routes it to a handler, the handler parses its       *)
(* input, takes the store lock, accesses the map and the counter one       *)
(* statement at a time, releases the lock and writes its response.         *)
(***************************************************************************)
EXTENDS Integers, Sequences, FiniteSets, TLC

(***************************************************************************)
(* Bounds of the model.                                                    *)
(***************************************************************************)
\* number of requests that can be in flight at the same time
NumHandlers == 2
\* number of Create requests accepted over a run (caps nextID)
MaxCreates == 2

Handlers == 1..NumHandlers

\* value of the lock's writer field when no goroutine holds it for writing
NoHandler == 0

(***************************************************************************)
(* Strings are sequences of one-character strings, so that the handlers'   *)
(* slicing of r.URL.Path and strconv.Atoi are computed as the code does.   *)
(***************************************************************************)
RootPath     == <<"/">>
ApiTasks     == <<"/", "a", "p", "i", "/", "t", "a", "s", "k", "s">>
ApiTasksDir  == ApiTasks \o <<"/">>
DoneSuffix   == <<"/", "d", "o", "n", "e">>

\* id segments a client may send: decimal numbers and a word
IdSegments == {<<"1">>, <<"2">>, <<"x">>}

\* an id the store never issues within the bounds
FarSegment == <<"9", "9", "9">>

Paths ==
    {RootPath, <<"/", "x">>, ApiTasks, ApiTasksDir, ApiTasks \o DoneSuffix}
    \cup {ApiTasksDir \o s : s \in IdSegments}
    \cup {ApiTasksDir \o s \o DoneSuffix : s \in IdSegments \cup {FarSegment}}

Methods == {"GET", "POST", "PUT", "DELETE", "PATCH"}

(***************************************************************************)
(* Request bodies.  A well-formed body is a JSON object, modelled as the   *)
(* function from the member names it carries to their values; Malformed    *)
(* stands for every body json.Decoder rejects (empty, truncated, wrong     *)
(* member type).                                                           *)
(***************************************************************************)
Malformed == [malformed |-> TRUE]
Titles    == {"", "a", "b"}

JsonObjects ==
    {[title |-> "a"],
     [title |-> "", completed |-> TRUE],
     [id |-> 7, title |-> "b", completed |-> TRUE]}

Bodies == {Malformed} \cup JsonObjects

Requests == [method : Methods, path : Paths, body : Bodies]

\* no request in hand
NoRequest == [method |-> "", path |-> <<>>, body |-> Malformed]

(***************************************************************************)
(* type Task struct, and its zero value (var task Task).                   *)
(***************************************************************************)
Task == [ID : Int, Title : Titles, Completed : BOOLEAN]

ZeroTask == [ID |-> 0, Title |-> "", Completed |-> FALSE]

\* json.NewDecoder(r.Body).Decode(&task): members present in the object
\* overwrite the zero value, absent members leave it.
DecodeOk(body) == "malformed" \notin DOMAIN body

\* variant: the completed member is not read
DecodeIgnoringCompleted(body) ==
    [ID        |-> IF "id" \in DOMAIN body THEN body.id ELSE 0,
     Title     |-> IF "title" \in DOMAIN body THEN body.title ELSE "",
     Completed |-> FALSE]

Decode(body) ==
    [ID        |-> IF "id" \in DOMAIN body THEN body.id ELSE 0,
     Title     |-> IF "title" \in DOMAIN body THEN body.title ELSE "",
     Completed |-> IF "completed" \in DOMAIN body THEN body.completed ELSE FALSE]

\* json.NewEncoder(w).Encode(task): the struct tags name the members.
Encode(t) == [id |-> t.ID, title |-> t.Title, completed |-> t.Completed]

(***************************************************************************)
(* A []Task: a nil slice (the zero value) and an empty slice made by make  *)
(* both have length 0, but json encodes the first as null and the second   *)
(* as [].                                                                  *)
(***************************************************************************)
NilSlice == [isNil |-> TRUE, elems |-> <<>>]

\* variant: the slice is declared (var tasks []Task) instead of made
DeclaredSlice == NilSlice

\* make([]Task, 0, n)
MakeSlice == [isNil |-> FALSE, elems |-> <<>>]

\* append(s, t)
AppendSlice(s, t) == [isNil |-> FALSE, elems |-> Append(s.elems, t)]

JsonNull == [json |-> "null", items |-> <<>>]

\* Encode of a []Task: null for a nil slice, else a JSON array of the
\* encoded elements.
EncodeAll(ts) ==
    IF ts.isNil THEN JsonNull
    ELSE [json |-> "array",
          items |-> [i \in 1..Len(ts.elems) |-> Encode(ts.elems[i])]]

(***************************************************************************)
(* Go string operations used on r.URL.Path.                                *)
(***************************************************************************)
\* s[lo:hi] with 0-based bounds; Go panics unless 0 <= lo <= hi <= len(s).
SliceOk(s, lo, hi) == 0 <= lo /\ lo <= hi /\ hi <= Len(s)

Slice(s, lo, hi) == SubSeq(s, lo + 1, hi)

HasSuffix(s, suf) ==
    /\ Len(s) >= Len(suf)
    /\ SubSeq(s, Len(s) - Len(suf) + 1, Len(s)) = suf

HasPrefix(s, pre) ==
    /\ Len(s) >= Len(pre)
    /\ SubSeq(s, 1, Len(pre)) = pre

Digits == {"0", "1", "2", "3", "4", "5", "6", "7", "8", "9"}

DigitVal(c) ==
    CASE c = "0" -> 0 [] c = "1" -> 1 [] c = "2" -> 2 [] c = "3" -> 3
      [] c = "4" -> 4 [] c = "5" -> 5 [] c = "6" -> 6 [] c = "7" -> 7
      [] c = "8" -> 8 [] c = "9" -> 9

RECURSIVE DecVal(_)
DecVal(s) == IF s = <<>> THEN 0
             ELSE 10 * DecVal(SubSeq(s, 1, Len(s) - 1)) + DigitVal(s[Len(s)])

\* strconv.Atoi: an optional sign followed by at least one decimal digit.
Unsigned(s) == IF s # <<>> /\ s[1] \in {"+", "-"} THEN Tail(s) ELSE s

AtoiOk(s) ==
    /\ Unsigned(s) # <<>>
    /\ \A i \in 1..Len(Unsigned(s)) : Unsigned(s)[i] \in Digits

Atoi(s) == IF s # <<>> /\ s[1] = "-" THEN 0 - DecVal(Unsigned(s))
           ELSE DecVal(Unsigned(s))

(***************************************************************************)
(* The routing table of main(): http.HandleFunc("/", ...), ("/api/tasks",  *)
(* ...) and ("/api/tasks/", ...).  ServeMux picks the longest matching     *)
(* pattern: "/api/tasks" matches that path only, "/api/tasks/" matches     *)
(* every path below it, "/" matches everything else.                       *)
(***************************************************************************)
Route(r) ==
    IF r.path = ApiTasks
    THEN CASE r.method = "GET"  -> "handleGetTasks"
           [] r.method = "POST" -> "handleCreateTask"
           [] OTHER             -> "methodNotAllowed"
    ELSE IF HasPrefix(r.path, ApiTasksDir)
    THEN CASE r.method = "PUT" ->
                  IF /\ Len(r.path) > Len(ApiTasksDir)
                     /\ HasSuffix(r.path, DoneSuffix)
                  THEN "handleMarkTaskAsDone"
                  ELSE "handleUpdateTask"
           [] r.method = "DELETE" -> "handleDeleteTask"
           [] OTHER               -> "methodNotAllowed"
    ELSE "handleRoot"

(***************************************************************************)
(* Responses: the status code and the body written to the client.  The     *)
(* error texts of the source are Russian; they are given here in English.  *)
(* A body is a record: a text, an encoded task or an encoded list.         *)
(***************************************************************************)
StatusOK               == 200
StatusCreated          == 201
StatusNoContent        == 204
StatusBadRequest       == 400
StatusNotFound         == 404
StatusMethodNotAllowed == 405

EmptyBody == [text |-> ""]

NoResponse == [status |-> 0, body |-> EmptyBody]

Error(text, code) == [status |-> code, body |-> text]

MsgNotFound      == [text |-> "not found"]
MsgWelcome       == [text |-> "welcome"]
MsgNotAllowed    == [text |-> "method not allowed"]
MsgBadBody       == [text |-> "invalid request body"]
MsgBadID         == [text |-> "invalid task id"]
MsgTaskNotFound  == [text |-> "task not found"]

(***************************************************************************)
(* State.                                                                  *)
(*   tasks, nextID      the fields of the global taskStore                 *)
(*   writer, readers    the state of its embedded sync.RWMutex             *)
(*   pc                 the statement each request goroutine is at         *)
(*   id, task, updatedTask, existingTask, snapshot, visited                *)
(*                      the handlers' local variables                      *)
(*   resp               the response a goroutine has written               *)
(*   issued             history: the ids handleCreateTask assigned, in     *)
(*                      the order of assignment                            *)
(*   deleted            history: the ids handleDeleteTask removed          *)
(*   req                history: the request a goroutine serves (its body  *)
(*                      only where the handler decodes one)                *)
(*   badInput           history: the request a goroutine serves carried    *)
(*                      an undecodable body or a non-integer id segment    *)
(*   serial             history: the store after running, one at a time    *)
(*                      and each in one step, the critical sections of     *)
(*                      the handlers in the order they took the lock       *)
(*   owed               history: the response that serial run gives to     *)
(*                      the request a goroutine serves                     *)
(***************************************************************************)
VARIABLES tasks, nextID, writer, readers, pc, id, task, updatedTask,
          existingTask, snapshot, visited, resp, issued, deleted, badInput,
          req, serial, owed

store  == <<tasks, nextID>>
lock   == <<writer, readers>>
locals == <<id, task, updatedTask, existingTask, snapshot, visited>>
ghost   == <<serial, owed>>
history == <<issued, deleted, badInput, req, serial, owed>>
vars   == <<tasks, nextID, writer, readers, pc, id, task, updatedTask,
           existingTask, snapshot, visited, resp, issued, deleted, badInput,
           req, serial, owed>>

\* variant: the counter starts at the zero value of int
NewTaskStoreFromZero == [tasks |-> <<>>, nextID |-> 0]

\* NewTaskStore(): an empty map, and the first id to hand out
NewTaskStore == [tasks |-> <<>>, nextID |-> 1]

\* var taskStore = NewTaskStore(), and the start of the server: no request
\* is in flight.
Init ==
    /\ tasks = NewTaskStore.tasks
    /\ nextID = NewTaskStore.nextID
    /\ writer = NoHandler
    /\ readers = {}
    /\ pc = [h \in Handlers |-> "idle"]
    /\ id = [h \in Handlers |-> 0]
    /\ task = [h \in Handlers |-> ZeroTask]
    /\ updatedTask = [h \in Handlers |-> ZeroTask]
    /\ existingTask = [h \in Handlers |-> ZeroTask]
    /\ snapshot = [h \in Handlers |-> NilSlice]
    /\ visited = [h \in Handlers |-> {}]
    /\ resp = [h \in Handlers |-> NoResponse]
    /\ issued = <<>>
    /\ deleted = {}
    /\ badInput = [h \in Handlers |-> FALSE]
    /\ req = [h \in Handlers |-> NoRequest]
    /\ serial = NewTaskStore
    /\ owed = [h \in Handlers |-> NoResponse]

(***************************************************************************)
(* Map operations on taskStore.tasks.                                      *)
(***************************************************************************)
Exists(m, k) == k \in DOMAIN m

\* m[k] = t
MapSet(m, k, t) == [x \in DOMAIN m \cup {k} |-> IF x = k THEN t ELSE m[x]]

\* delete(m, k)
\* variant: the map is cleared
MapDeleteAll(m, k) == <<>>

MapDelete(m, k) == [x \in DOMAIN m \ {k} |-> m[x]]

(***************************************************************************)
(* sync.RWMutex: Lock waits until no goroutine holds the lock in either    *)
(* mode, RLock until no goroutine holds it for writing.                    *)
(***************************************************************************)
\* variant: the mutating handlers do not wait for the lock
CanLockUnguarded == TRUE

\* variant: a writer waits for the writer only, not for the readers
CanLockIgnoringReaders == writer = NoHandler

CanLock == writer = NoHandler /\ readers = {}

\* variant: RLock does not wait for the writer
CanRLockUnguarded == TRUE

CanRLock == writer = NoHandler

\* variant: Lock returns without waiting
LockNoWait(h) ==
    /\ writer' = h
    /\ UNCHANGED readers

Lock(h) ==
    /\ CanLock
    /\ writer' = h
    /\ UNCHANGED readers

\* variant: the Unlock is deferred to the return of the handler
UnlockDeferred(h) == UNCHANGED <<writer, readers>>

Unlock(h) ==
    /\ writer' = NoHandler
    /\ UNCHANGED readers

RLock(h) ==
    /\ CanRLock
    /\ readers' = readers \cup {h}
    /\ UNCHANGED writer

RUnlock(h) ==
    /\ readers' = readers \ {h}
    /\ UNCHANGED writer

\* a goroutine moves to another statement / writes its response
Goto(h, label) == pc' = [pc EXCEPT ![h] = label]

Respond(h, r) ==
    /\ resp' = [resp EXCEPT ![h] = r]
    /\ Goto(h, "done")

\* the handler function returns: its local variables die
ClearLocals(h) ==
    /\ id' = [id EXCEPT ![h] = 0]
    /\ task' = [task EXCEPT ![h] = ZeroTask]
    /\ updatedTask' = [updatedTask EXCEPT ![h] = ZeroTask]
    /\ existingTask' = [existingTask EXCEPT ![h] = ZeroTask]
    /\ snapshot' = [snapshot EXCEPT ![h] = NilSlice]
    /\ visited' = [visited EXCEPT ![h] = {}]

(***************************************************************************)
(* The id segment of the path, as each handler slices it.                  *)
(***************************************************************************)
\* r.URL.Path[len("/api/tasks/"):]
IdStr(path) == Slice(path, Len(ApiTasksDir), Len(path))

\* r.URL.Path[len("/api/tasks/") : len(r.URL.Path)-len("/done")]
DoneIdStrOk(path) ==
    SliceOk(path, Len(ApiTasksDir), Len(path) - Len(DoneSuffix))

DoneIdStr(path) == Slice(path, Len(ApiTasksDir), Len(path) - Len(DoneSuffix))

\* The first path segment below /api/tasks/ (the {id} of the routes).
RECURSIVE UpToSlash(_)
UpToSlash(s) == IF s = <<>> \/ Head(s) = "/" THEN <<>>
                ELSE <<Head(s)>> \o UpToSlash(Tail(s))

IdSegment(path) == UpToSlash(SubSeq(path, Len(ApiTasksDir) + 1, Len(path)))

\* Malformed input: a body the create or update route cannot decode, or a
\* non-integer {id} on the update, delete or mark-done route.
InputMalformed(r) ==
    \/ /\ Route(r) \in {"handleCreateTask", "handleUpdateTask"}
       /\ ~DecodeOk(r.body)
    \/ /\ Route(r) \in {"handleUpdateTask", "handleDeleteTask",
                         "handleMarkTaskAsDone"}
       /\ ~AtoiOk(IdSegment(r.path))

\* What a handler has of the request it serves: the request line, and the
\* body when the handler is one that decodes it.
ReadsBody(r) == Route(r) \in {"handleCreateTask", "handleUpdateTask"}

InHand(r) == IF ReadsBody(r) THEN r ELSE [r EXCEPT !.body = Malformed]

\* Creates accepted so far: the model accepts MaxCreates of them.
CreatesAccepted ==
    Len(issued) + Cardinality({h \in Handlers : pc[h] = "create_lock"})

(***************************************************************************)
(* The critical section of each handler run in one step on a store s,      *)
(* with the response the handler then writes: the sequential reference     *)
(* the interleaved run is compared with.  AtomicList gives the encoded     *)
(* records as a set, the order of a range over a map being unspecified.    *)
(***************************************************************************)
AtomicCreate(s, t) ==
    LET new == [t EXCEPT !.ID = s.nextID]
    IN  [store |-> [tasks  |-> MapSet(s.tasks, new.ID, new),
                    nextID |-> s.nextID + 1],
         resp  |-> [status |-> StatusCreated, body |-> Encode(new)]]

AtomicUpdate(s, i, u) ==
    IF Exists(s.tasks, i)
    THEN LET old == s.tasks[i]
             new == [ID        |-> old.ID,
                     Title     |-> IF u.Title # "" THEN u.Title ELSE old.Title,
                     Completed |-> u.Completed]
         IN  [store |-> [s EXCEPT !.tasks = MapSet(@, i, new)],
              resp  |-> [status |-> StatusOK, body |-> Encode(new)]]
    ELSE [store |-> s, resp |-> Error(MsgTaskNotFound, StatusNotFound)]

AtomicMarkDone(s, i) ==
    IF Exists(s.tasks, i)
    THEN LET new == [s.tasks[i] EXCEPT !.Completed = TRUE]
         IN  [store |-> [s EXCEPT !.tasks = MapSet(@, i, new)],
              resp  |-> [status |-> StatusOK, body |-> Encode(new)]]
    ELSE [store |-> s, resp |-> Error(MsgTaskNotFound, StatusNotFound)]

AtomicDelete(s, i) ==
    IF Exists(s.tasks, i)
    THEN [store |-> [s EXCEPT !.tasks = MapDelete(@, i)],
          resp  |-> [status |-> StatusNoContent, body |-> EmptyBody]]
    ELSE [store |-> s, resp |-> Error(MsgTaskNotFound, StatusNotFound)]

AtomicList(s) ==
    [store |-> s,
     resp  |-> [status |-> StatusOK,
                body   |-> [json  |-> "array",
                            items |-> {Encode(s.tasks[k]) :
                                         k \in DOMAIN s.tasks}]]]

\* goroutine h took the lock: its operation is the next of the serial run
Serialize(h, outcome) ==
    /\ serial' = outcome.store
    /\ owed' = [owed EXCEPT ![h] = outcome.resp]

(***************************************************************************)
(* handleRoot, and the default branches of the two routing closures.       *)
(***************************************************************************)
HandleRoot(h) ==
    /\ pc[h] = "idle"
    /\ \E r \in Requests :
         /\ Route(r) = "handleRoot"
         /\ badInput' = [badInput EXCEPT ![h] = InputMalformed(r)]
         /\ req' = [req EXCEPT ![h] = InHand(r)]
         /\ IF r.path # RootPath
            THEN Respond(h, Error(MsgNotFound, StatusNotFound))
            ELSE Respond(h, [status |-> StatusOK, body |-> MsgWelcome])
    /\ UNCHANGED <<store, lock, locals, issued, deleted, ghost>>

MethodNotAllowed(h) ==
    /\ pc[h] = "idle"
    /\ \E r \in Requests :
         /\ Route(r) = "methodNotAllowed"
         /\ badInput' = [badInput EXCEPT ![h] = InputMalformed(r)]
         /\ req' = [req EXCEPT ![h] = InHand(r)]
         /\ Respond(h, Error(MsgNotAllowed, StatusMethodNotAllowed))
    /\ UNCHANGED <<store, lock, locals, issued, deleted, ghost>>

(***************************************************************************)
(* handleCreateTask                                                        *)
(***************************************************************************)
\* method check and body decoding, up to the call of Lock
HandleCreateTask(h) ==
    /\ pc[h] = "idle"
    /\ \E r \in Requests :
         /\ Route(r) = "handleCreateTask"
         /\ badInput' = [badInput EXCEPT ![h] = InputMalformed(r)]
         /\ req' = [req EXCEPT ![h] = InHand(r)]
         /\ IF r.method # "POST"
            THEN /\ Respond(h, Error(MsgNotAllowed, StatusMethodNotAllowed))
                 /\ UNCHANGED task
            ELSE IF ~DecodeOk(r.body)
            THEN /\ Respond(h, Error(MsgBadBody, StatusBadRequest))
                 /\ UNCHANGED task
            ELSE /\ CreatesAccepted < MaxCreates
                 /\ task' = [task EXCEPT ![h] = Decode(r.body)]
                 /\ Goto(h, "create_lock")
                 /\ UNCHANGED resp
    /\ UNCHANGED <<store, lock, id, updatedTask, existingTask, snapshot,
                   visited, issued, deleted, ghost>>

\* taskStore.Lock()
CreateLock(h) ==
    /\ pc[h] = "create_lock"
    /\ Lock(h)
    /\ Serialize(h, AtomicCreate(serial, task[h]))
    /\ Goto(h, "create_assign")
    /\ UNCHANGED <<store, locals, resp, issued, deleted, badInput, req>>

\* variant: the id is derived from the size of the map
NewIDFromSize == Cardinality(DOMAIN tasks) + 1

\* the id of the new task: taskStore.nextID
NewID == nextID

\* task.ID = taskStore.nextID
CreateAssignID(h) ==
    /\ pc[h] = "create_assign"
    /\ task' = [task EXCEPT ![h].ID = NewID]
    /\ issued' = Append(issued, NewID)
    /\ Goto(h, "create_store")
    /\ UNCHANGED <<store, lock, id, updatedTask, existingTask, snapshot,
                   visited, resp, deleted, badInput, req, ghost>>

\* taskStore.tasks[task.ID] = task
CreateStore(h) ==
    /\ pc[h] = "create_store"
    /\ tasks' = MapSet(tasks, task[h].ID, task[h])
    /\ Goto(h, "create_inc")
    /\ UNCHANGED <<nextID, lock, locals, resp, history>>

\* variant: the increment is missing
NotIncremented(n) == n

\* the value nextID++ leaves in the counter
Incremented(n) == n + 1

\* taskStore.nextID++
CreateIncrement(h) ==
    /\ pc[h] = "create_inc"
    /\ nextID' = Incremented(nextID)
    /\ Goto(h, "create_unlock")
    /\ UNCHANGED <<tasks, lock, locals, resp, history>>

\* taskStore.Unlock()
CreateUnlock(h) ==
    /\ pc[h] = "create_unlock"
    /\ Unlock(h)
    /\ Goto(h, "create_respond")
    /\ UNCHANGED <<store, locals, resp, history>>

\* w.WriteHeader(http.StatusCreated); json.NewEncoder(w).Encode(task)
CreateRespond(h) ==
    /\ pc[h] = "create_respond"
    /\ Respond(h, [status |-> StatusCreated, body |-> Encode(task[h])])
    /\ ClearLocals(h)
    /\ UNCHANGED <<store, lock, history>>

(***************************************************************************)
(* handleGetTasks                                                          *)
(***************************************************************************)
HandleGetTasks(h) ==
    /\ pc[h] = "idle"
    /\ \E r \in Requests :
         /\ Route(r) = "handleGetTasks"
         /\ badInput' = [badInput EXCEPT ![h] = InputMalformed(r)]
         /\ req' = [req EXCEPT ![h] = InHand(r)]
         /\ IF r.method # "GET"
            THEN Respond(h, Error(MsgNotAllowed, StatusMethodNotAllowed))
            ELSE Goto(h, "get_rlock") /\ UNCHANGED resp
    /\ UNCHANGED <<store, lock, locals, issued, deleted, ghost>>

\* taskStore.RLock(); tasks := make([]Task, 0, len(taskStore.tasks))
GetRLock(h) ==
    /\ pc[h] = "get_rlock"
    /\ RLock(h)
    /\ snapshot' = [snapshot EXCEPT ![h] = MakeSlice]
    /\ visited' = [visited EXCEPT ![h] = {}]
    /\ Serialize(h, AtomicList(serial))
    /\ Goto(h, "get_range")
    /\ UNCHANGED <<store, id, task, updatedTask, existingTask, resp, issued,
                   deleted, badInput, req>>

\* one iteration of: for _, task := range taskStore.tasks { append }
\* (the range visits every key once, in an unspecified order)
GetRangeNext(h) ==
    /\ pc[h] = "get_range"
    /\ \E k \in DOMAIN tasks \ visited[h] :
         /\ snapshot' = [snapshot EXCEPT ![h] = AppendSlice(@, tasks[k])]
         /\ visited' = [visited EXCEPT ![h] = @ \cup {k}]
    /\ UNCHANGED <<store, lock, pc, id, task, updatedTask, existingTask,
                   resp, history>>

\* the range is exhausted
GetRangeEnd(h) ==
    /\ pc[h] = "get_range"
    /\ DOMAIN tasks \ visited[h] = {}
    /\ Goto(h, "get_runlock")
    /\ UNCHANGED <<store, lock, locals, resp, history>>

\* taskStore.RUnlock()
GetRUnlock(h) ==
    /\ pc[h] = "get_runlock"
    /\ RUnlock(h)
    /\ Goto(h, "get_respond")
    /\ UNCHANGED <<store, locals, resp, history>>

\* json.NewEncoder(w).Encode(tasks)
GetRespond(h) ==
    /\ pc[h] = "get_respond"
    /\ Respond(h, [status |-> StatusOK, body |-> EncodeAll(snapshot[h])])
    /\ ClearLocals(h)
    /\ UNCHANGED <<store, lock, history>>

(***************************************************************************)
(* handleUpdateTask                                                        *)
(***************************************************************************)
\* method check, id parsing and body decoding, up to the call of Lock
HandleUpdateTask(h) ==
    /\ pc[h] = "idle"
    /\ \E r \in Requests :
         /\ Route(r) = "handleUpdateTask"
         /\ badInput' = [badInput EXCEPT ![h] = InputMalformed(r)]
         /\ req' = [req EXCEPT ![h] = InHand(r)]
         /\ IF r.method # "PUT"
            THEN /\ Respond(h, Error(MsgNotAllowed, StatusMethodNotAllowed))
                 /\ UNCHANGED <<id, updatedTask>>
            ELSE IF ~AtoiOk(IdStr(r.path))
            THEN /\ Respond(h, Error(MsgBadID, StatusBadRequest))
                 /\ UNCHANGED <<id, updatedTask>>
            ELSE IF ~DecodeOk(r.body)
            THEN /\ Respond(h, Error(MsgBadBody, StatusBadRequest))
                 /\ UNCHANGED <<id, updatedTask>>
            ELSE /\ id' = [id EXCEPT ![h] = Atoi(IdStr(r.path))]
                 /\ updatedTask' = [updatedTask EXCEPT ![h] = Decode(r.body)]
                 /\ Goto(h, "update_lock")
                 /\ UNCHANGED resp
    /\ UNCHANGED <<store, lock, task, existingTask, snapshot, visited, issued, deleted, ghost>>

\* taskStore.Lock()
UpdateLock(h) ==
    /\ pc[h] = "update_lock"
    /\ Lock(h)
    /\ Serialize(h, AtomicUpdate(serial, id[h], updatedTask[h]))
    /\ Goto(h, "update_lookup")
    /\ UNCHANGED <<store, locals, resp, issued, deleted, badInput, req>>

\* variant: the decoded body replaces the stored record
MergeReplace(existing, updated) == updated

\* variant: the title is overwritten even when the new title is empty
MergeAlwaysTitle(existing, updated) ==
    [existing EXCEPT !.Title = updated.Title, !.Completed = updated.Completed]

\* variant: the completed flag is not copied
MergeTitleOnly(existing, updated) ==
    [existing EXCEPT !.Title = IF updated.Title # "" THEN updated.Title ELSE @]

\* the title and completed flag of the record after the update
MergeUpdate(existing, updated) ==
    [existing EXCEPT
       !.Title     = IF updated.Title # "" THEN updated.Title ELSE @,
       !.Completed = updated.Completed]

\* if existingTask, exists := taskStore.tasks[id]; exists {
\*     updatedTask.ID = id; ...; existingTask.Completed = updatedTask.Completed
UpdateLookup(h) ==
    /\ pc[h] = "update_lookup"
    /\ IF Exists(tasks, id[h])
       THEN /\ updatedTask' = [updatedTask EXCEPT ![h].ID = id[h]]
            /\ existingTask' =
                 [existingTask EXCEPT
                    ![h] = MergeUpdate(tasks[id[h]], updatedTask[h])]
            /\ Goto(h, "update_store")
       ELSE /\ Goto(h, "update_unlock_nf")
            /\ UNCHANGED <<updatedTask, existingTask>>
    /\ UNCHANGED <<store, lock, id, task, snapshot, visited, resp, history>>

\* taskStore.tasks[id] = existingTask
UpdateStore(h) ==
    /\ pc[h] = "update_store"
    /\ tasks' = MapSet(tasks, id[h], existingTask[h])
    /\ Goto(h, "update_unlock")
    /\ UNCHANGED <<nextID, lock, locals, resp, history>>

\* taskStore.Unlock() of the found branch
UpdateUnlock(h) ==
    /\ pc[h] = "update_unlock"
    /\ Unlock(h)
    /\ Goto(h, "update_respond")
    /\ UNCHANGED <<store, locals, resp, history>>

\* json.NewEncoder(w).Encode(existingTask)
UpdateRespond(h) ==
    /\ pc[h] = "update_respond"
    /\ Respond(h, [status |-> StatusOK, body |-> Encode(existingTask[h])])
    /\ ClearLocals(h)
    /\ UNCHANGED <<store, lock, history>>

\* taskStore.Unlock() after the if
UpdateUnlockNotFound(h) ==
    /\ pc[h] = "update_unlock_nf"
    /\ Unlock(h)
    /\ Goto(h, "update_respond_nf")
    /\ UNCHANGED <<store, locals, resp, history>>

\* http.Error(w, ..., http.StatusNotFound)
UpdateRespondNotFound(h) ==
    /\ pc[h] = "update_respond_nf"
    /\ Respond(h, Error(MsgTaskNotFound, StatusNotFound))
    /\ ClearLocals(h)
    /\ UNCHANGED <<store, lock, history>>

(***************************************************************************)
(* handleDeleteTask                                                        *)
(***************************************************************************)
HandleDeleteTask(h) ==
    /\ pc[h] = "idle"
    /\ \E r \in Requests :
         /\ Route(r) = "handleDeleteTask"
         /\ badInput' = [badInput EXCEPT ![h] = InputMalformed(r)]
         /\ req' = [req EXCEPT ![h] = InHand(r)]
         /\ IF r.method # "DELETE"
            THEN /\ Respond(h, Error(MsgNotAllowed, StatusMethodNotAllowed))
                 /\ UNCHANGED id
            ELSE IF ~AtoiOk(IdStr(r.path))
            THEN /\ Respond(h, Error(MsgBadID, StatusBadRequest))
                 /\ UNCHANGED id
            ELSE /\ id' = [id EXCEPT ![h] = Atoi(IdStr(r.path))]
                 /\ Goto(h, "delete_lock")
                 /\ UNCHANGED resp
    /\ UNCHANGED <<store, lock, task, updatedTask, existingTask, snapshot,
                   visited, issued, deleted, ghost>>

\* taskStore.Lock()
DeleteLock(h) ==
    /\ pc[h] = "delete_lock"
    /\ Lock(h)
    /\ Serialize(h, AtomicDelete(serial, id[h]))
    /\ Goto(h, "delete_lookup")
    /\ UNCHANGED <<store, locals, resp, issued, deleted, badInput, req>>

\* variant: the entry is deleted without the existence check
DeleteLookupUnchecked(h) ==
    /\ pc[h] = "delete_lookup"
    /\ Goto(h, "delete_delete")
    /\ UNCHANGED <<store, lock, locals, resp, history>>

\* if _, exists := taskStore.tasks[id]; exists {
DeleteLookup(h) ==
    /\ pc[h] = "delete_lookup"
    /\ IF Exists(tasks, id[h])
       THEN Goto(h, "delete_delete")
       ELSE Goto(h, "delete_unlock_nf")
    /\ UNCHANGED <<store, lock, locals, resp, history>>

\* variant: deleting a task gives its id back to the counter
DeleteDeleteReclaim(h) ==
    /\ pc[h] = "delete_delete"
    /\ tasks' = MapDelete(tasks, id[h])
    /\ nextID' = nextID - 1
    /\ deleted' = deleted \cup {id[h]}
    /\ Goto(h, "delete_unlock")
    /\ UNCHANGED <<lock, locals, resp, issued, badInput, req, ghost>>

\* delete(taskStore.tasks, id)
DeleteDelete(h) ==
    /\ pc[h] = "delete_delete"
    /\ tasks' = MapDelete(tasks, id[h])
    /\ deleted' = deleted \cup {id[h]}
    /\ Goto(h, "delete_unlock")
    /\ UNCHANGED <<nextID, lock, locals, resp, issued, badInput, req,
                   ghost>>

\* taskStore.Unlock() of the found branch
DeleteUnlock(h) ==
    /\ pc[h] = "delete_unlock"
    /\ Unlock(h)
    /\ Goto(h, "delete_respond")
    /\ UNCHANGED <<store, locals, resp, history>>

\* w.WriteHeader(http.StatusNoContent)
DeleteRespond(h) ==
    /\ pc[h] = "delete_respond"
    /\ Respond(h, [status |-> StatusNoContent, body |-> EmptyBody])
    /\ ClearLocals(h)
    /\ UNCHANGED <<store, lock, history>>

\* taskStore.Unlock() after the if
DeleteUnlockNotFound(h) ==
    /\ pc[h] = "delete_unlock_nf"
    /\ Unlock(h)
    /\ Goto(h, "delete_respond_nf")
    /\ UNCHANGED <<store, locals, resp, history>>

\* http.Error(w, ..., http.StatusNotFound)
DeleteRespondNotFound(h) ==
    /\ pc[h] = "delete_respond_nf"
    /\ Respond(h, Error(MsgTaskNotFound, StatusNotFound))
    /\ ClearLocals(h)
    /\ UNCHANGED <<store, lock, history>>

(***************************************************************************)
(* handleMarkTaskAsDone                                                    *)
(***************************************************************************)
\* method check and id parsing, up to the call of Lock.  A slice expression
\* with low > high panics; net/http recovers the panic of a handler and
\* closes the connection without writing a response.
HandleMarkTaskAsDone(h) ==
    /\ pc[h] = "idle"
    /\ \E r \in Requests :
         /\ Route(r) = "handleMarkTaskAsDone"
         /\ badInput' = [badInput EXCEPT ![h] = InputMalformed(r)]
         /\ req' = [req EXCEPT ![h] = InHand(r)]
         /\ IF r.method # "PUT"
            THEN /\ Respond(h, Error(MsgNotAllowed, StatusMethodNotAllowed))
                 /\ UNCHANGED id
            ELSE IF ~DoneIdStrOk(r.path)
            THEN /\ Goto(h, "panicked")
                 /\ UNCHANGED <<id, resp>>
            ELSE IF ~AtoiOk(DoneIdStr(r.path))
            THEN /\ Respond(h, Error(MsgBadID, StatusBadRequest))
                 /\ UNCHANGED id
            ELSE /\ id' = [id EXCEPT ![h] = Atoi(DoneIdStr(r.path))]
                 /\ Goto(h, "done_lock")
                 /\ UNCHANGED resp
    /\ UNCHANGED <<store, lock, task, updatedTask, existingTask, snapshot,
                   visited, issued, deleted, ghost>>

\* taskStore.Lock()
MarkDoneLock(h) ==
    /\ pc[h] = "done_lock"
    /\ Lock(h)
    /\ Serialize(h, AtomicMarkDone(serial, id[h]))
    /\ Goto(h, "done_lookup")
    /\ UNCHANGED <<store, locals, resp, issued, deleted, badInput, req>>

\* variant: the flag is toggled
ToggleCompleted(t) == [t EXCEPT !.Completed = ~@]

\* task.Completed = true
MarkCompleted(t) == [t EXCEPT !.Completed = TRUE]

\* if task, exists := taskStore.tasks[id]; exists { task.Completed = true
MarkDoneLookup(h) ==
    /\ pc[h] = "done_lookup"
    /\ IF Exists(tasks, id[h])
       THEN /\ task' = [task EXCEPT ![h] = MarkCompleted(tasks[id[h]])]
            /\ Goto(h, "done_store")
       ELSE /\ Goto(h, "done_unlock_nf")
            /\ UNCHANGED task
    /\ UNCHANGED <<store, lock, id, updatedTask, existingTask, snapshot,
                   visited, resp, history>>

\* taskStore.tasks[id] = task
MarkDoneStore(h) ==
    /\ pc[h] = "done_store"
    /\ tasks' = MapSet(tasks, id[h], task[h])
    /\ Goto(h, "done_unlock")
    /\ UNCHANGED <<nextID, lock, locals, resp, history>>

\* taskStore.Unlock() of the found branch
MarkDoneUnlock(h) ==
    /\ pc[h] = "done_unlock"
    /\ Unlock(h)
    /\ Goto(h, "done_respond")
    /\ UNCHANGED <<store, locals, resp, history>>

\* json.NewEncoder(w).Encode(task)
MarkDoneRespond(h) ==
    /\ pc[h] = "done_respond"
    /\ Respond(h, [status |-> StatusOK, body |-> Encode(task[h])])
    /\ ClearLocals(h)
    /\ UNCHANGED <<store, lock, history>>

\* taskStore.Unlock() after the if
MarkDoneUnlockNotFound(h) ==
    /\ pc[h] = "done_unlock_nf"
    /\ Unlock(h)
    /\ Goto(h, "done_respond_nf")
    /\ UNCHANGED <<store, locals, resp, history>>

\* http.Error(w, ..., http.StatusNotFound)
MarkDoneRespondNotFound(h) ==
    /\ pc[h] = "done_respond_nf"
    /\ Respond(h, Error(MsgTaskNotFound, StatusNotFound))
    /\ ClearLocals(h)
    /\ UNCHANGED <<store, lock, history>>

(***************************************************************************)
(* The exchange is over (the response was sent, or the panic of the        *)
(* handler was recovered and the connection closed): the process can       *)
(* serve the next request.                                                 *)
(***************************************************************************)
Return(h) ==
    /\ pc[h] \in {"done", "panicked"}
    /\ Goto(h, "idle")
    /\ resp' = [resp EXCEPT ![h] = NoResponse]
    /\ badInput' = [badInput EXCEPT ![h] = FALSE]
    /\ req' = [req EXCEPT ![h] = NoRequest]
    /\ owed' = [owed EXCEPT ![h] = NoResponse]
    /\ UNCHANGED <<store, lock, locals, issued, deleted, serial>>

(***************************************************************************)
(* Statements a handler runs after its Unlock/RUnlock (writing the         *)
(* response, returning) read and write nothing but the goroutine's own     *)
(* variables, so they commute with every step of the other goroutines.     *)
(* The model schedules them before any other goroutine's next step         *)
(* (partial-order reduction); every statement that takes the lock or       *)
(* touches the store interleaves freely.                                   *)
(***************************************************************************)
AfterUnlock ==
    {"create_respond", "get_respond", "update_respond", "update_respond_nf",
     "delete_respond", "delete_respond_nf", "done_respond", "done_respond_nf",
     "done", "panicked"}

Scheduled(h) == \A g \in Handlers \ {h} : pc[g] \notin AfterUnlock

Next ==
    \E h \in Handlers :
       /\ Scheduled(h)
       /\ \/ HandleRoot(h)
          \/ MethodNotAllowed(h)
          \/ HandleCreateTask(h)
          \/ CreateLock(h)
          \/ CreateAssignID(h)
          \/ CreateStore(h)
          \/ CreateIncrement(h)
          \/ CreateUnlock(h)
          \/ CreateRespond(h)
          \/ HandleGetTasks(h)
          \/ GetRLock(h)
          \/ GetRangeNext(h)
          \/ GetRangeEnd(h)
          \/ GetRUnlock(h)
          \/ GetRespond(h)
          \/ HandleUpdateTask(h)
          \/ UpdateLock(h)
          \/ UpdateLookup(h)
          \/ UpdateStore(h)
          \/ UpdateUnlock(h)
          \/ UpdateRespond(h)
          \/ UpdateUnlockNotFound(h)
          \/ UpdateRespondNotFound(h)
          \/ HandleDeleteTask(h)
          \/ DeleteLock(h)
          \/ DeleteLookup(h)
          \/ DeleteDelete(h)
          \/ DeleteUnlock(h)
          \/ DeleteRespond(h)
          \/ DeleteUnlockNotFound(h)
          \/ DeleteRespondNotFound(h)
          \/ HandleMarkTaskAsDone(h)
          \/ MarkDoneLock(h)
          \/ MarkDoneLookup(h)
          \/ MarkDoneStore(h)
          \/ MarkDoneUnlock(h)
          \/ MarkDoneRespond(h)
          \/ MarkDoneUnlockNotFound(h)
          \/ MarkDoneRespondNotFound(h)
          \/ Return(h)

Spec == Init /\ [][Next]_vars

(***************************************************************************)
(* Scheduling.  A goroutine that serves a request and can take a step      *)
(* takes one: the Go scheduler is preemptive, and sync.RWMutex hands the   *)
(* lock to a waiting goroutine in bounded time (a waiting writer blocks    *)
(* new readers, and a starved waiter gets the lock first).  The lock of a  *)
(* waiting goroutine is free again and again rather than continuously,     *)
(* hence strong fairness.  Nothing obliges a client to send a request.     *)
(***************************************************************************)
Continue(h) ==
    /\ Scheduled(h)
    /\ \/ CreateLock(h)
       \/ CreateAssignID(h)
       \/ CreateStore(h)
       \/ CreateIncrement(h)
       \/ CreateUnlock(h)
       \/ CreateRespond(h)
       \/ GetRLock(h)
       \/ GetRangeNext(h)
       \/ GetRangeEnd(h)
       \/ GetRUnlock(h)
       \/ GetRespond(h)
       \/ UpdateLock(h)
       \/ UpdateLookup(h)
       \/ UpdateStore(h)
       \/ UpdateUnlock(h)
       \/ UpdateRespond(h)
       \/ UpdateUnlockNotFound(h)
       \/ UpdateRespondNotFound(h)
       \/ DeleteLock(h)
       \/ DeleteLookup(h)
       \/ DeleteDelete(h)
       \/ DeleteUnlock(h)
       \/ DeleteRespond(h)
       \/ DeleteUnlockNotFound(h)
       \/ DeleteRespondNotFound(h)
       \/ MarkDoneLock(h)
       \/ MarkDoneLookup(h)
       \/ MarkDoneStore(h)
       \/ MarkDoneUnlock(h)
       \/ MarkDoneRespond(h)
       \/ MarkDoneUnlockNotFound(h)
       \/ MarkDoneRespondNotFound(h)
       \/ Return(h)

Fairness == \A h \in Handlers : SF_vars(Continue(h))

FairSpec == Spec /\ Fairness

(***************************************************************************)
(* Properties.                                                             *)
(***************************************************************************)
\* the ids in a sequence of issued ids
Ids(seq) == {seq[i] : i \in 1..Len(seq)}

\* handler h is inside handleCreateTask's critical section, between the
\* assignment of the id (line 56) and the increment of the counter (line 58)
MidCreate(h) == pc[h] \in {"create_store", "create_inc"}

\* C1: concurrent Creates, in any interleaving, each advance the id counter
\* exactly once (the counter is its initial value plus the number of Creates
\* that passed the increment), and no two of them get or return the same id.
C1_CreateIdsUnique ==
    /\ \A i, j \in 1..Len(issued) : i # j => issued[i] # issued[j]
    /\ nextID = NewTaskStore.nextID + Len(issued)
                  - Cardinality({h \in Handlers : MidCreate(h)})
    /\ \A h \in Handlers :
         (pc[h] = "done" /\ resp[h].status = StatusCreated)
            => resp[h].body.id \in Ids(issued)

\* two Creates are in flight: one holds the lock with its id assigned and the
\* counter advanced, the other waits for the lock
C1_Witness ==
    \E h1, h2 \in Handlers :
       /\ h1 # h2
       /\ pc[h1] = "create_unlock"
       /\ pc[h2] = "create_lock"
       /\ nextID = 2

\* C2: from a fresh store, the k-th Create to take the lock gets id k: the id
\* of a Create equals the number of Creates that have accessed the store up
\* to and including it, and the first Create gets 1 (this holds whether or
\* not a Delete occurred).
C2_KthCreateGetsK ==
    /\ \A k \in 1..Len(issued) : issued[k] = k
    /\ \A h \in Handlers :
         /\ pc[h] \in {"create_store", "create_inc", "create_unlock"}
               => task[h].ID = Len(issued)
         /\ pc[h] = "create_respond" => task[h].ID \in 1..Len(issued)
         /\ (pc[h] = "done" /\ resp[h].status = StatusCreated)
               => resp[h].body.id \in 1..Len(issued)

\* the second Create of a history without Delete answers 201 with id 2
C2_Witness ==
    /\ deleted = {}
    /\ issued = <<1, 2>>
    /\ \E h \in Handlers :
         /\ pc[h] = "done"
         /\ resp[h].status = StatusCreated
         /\ resp[h].body.id = 2

\* C3: the id a Create assigns is strictly greater than every id assigned by
\* an earlier Create and is never the id of a task that was deleted.
C3_IdsNeverReused ==
    [][\A h \in Handlers :
         (pc[h] = "create_assign" /\ pc'[h] = "create_store")
            => /\ task'[h].ID \notin deleted
               /\ \A i \in 1..Len(issued) : issued[i] < task'[h].ID]_vars

\* a Create that ran after the Delete of task 1 got id 2
C3_Witness ==
    /\ deleted = {1}
    /\ \E h \in Handlers : pc[h] = "create_respond" /\ task[h].ID = 2

\* C4: every task in the mapping has an ID field equal to its key, whatever
\* id the bodies of Create and Update requests carried.
C4_IdEqualsKey == \A k \in DOMAIN tasks : tasks[k].ID = k

\* a stored task got its title from the body that carries "id": 7
C4_Witness == \E k \in DOMAIN tasks : tasks[k].Title = "b" /\ tasks[k].ID = k

\* C5: the next-id counter is strictly greater than every id ever issued,
\* than every key of the mapping and than every deleted id, in every state
\* in which no Create is between assigning its id and incrementing the
\* counter (the two statements run under the write lock).
C5_CounterAboveIssued ==
    (\A h \in Handlers : ~MidCreate(h))
       => /\ \A i \in 1..Len(issued) : issued[i] < nextID
          /\ \A k \in DOMAIN tasks : k < nextID
          /\ \A d \in deleted : d < nextID

\* two ids were issued, one of them was deleted, no Create is in progress
C5_Witness ==
    /\ Len(issued) = 2
    /\ deleted # {}
    /\ writer = NoHandler
    /\ nextID = 3

\* C6: an Update whose body has an empty title changes only the completed
\* flag of the task (to the requested value): title and id stay.
C6_EmptyTitleKeepsTitle ==
    [][\A h \in Handlers :
         (/\ pc[h] = "update_store"
          /\ pc'[h] = "update_unlock"
          /\ updatedTask[h].Title = "")
            => /\ id[h] \in DOMAIN tasks'
               /\ tasks'[id[h]] =
                    [tasks[id[h]] EXCEPT
                       !.Completed = updatedTask[h].Completed]]_vars

\* an Update with an empty title and completed = true has stored a task
\* that kept its title "a"
C6_Witness ==
    \E h \in Handlers :
       /\ pc[h] = "update_unlock"
       /\ updatedTask[h].Title = ""
       /\ tasks[id[h]].Title = "a"
       /\ tasks[id[h]].Completed

\* C7: an Update whose body has a non-empty title stores that title and the
\* requested completed flag under the id, and the record of the 200
\* response is the record stored under the id when the lock is released.
C7_UpdateStoresAndReturns ==
    [][\A h \in Handlers :
         /\ (/\ pc[h] = "update_store"
             /\ pc'[h] = "update_unlock"
             /\ updatedTask[h].Title # "")
               => /\ id[h] \in DOMAIN tasks'
                  /\ tasks'[id[h]].Title = updatedTask[h].Title
                  /\ tasks'[id[h]].Completed = updatedTask[h].Completed
                  /\ tasks'[id[h]].ID = id[h]
         /\ (pc[h] = "update_unlock" /\ pc'[h] = "update_respond")
               => existingTask'[h] = tasks[id[h]]
         /\ (pc[h] = "update_respond" /\ pc'[h] = "done")
               => /\ resp'[h].status = StatusOK
                  /\ resp'[h].body = Encode(existingTask[h])]_vars

\* an Update with title "b" released the lock and is about to answer
C7_Witness ==
    \E h \in Handlers :
       /\ pc[h] = "update_respond"
       /\ updatedTask[h].Title = "b"
       /\ existingTask[h].Title = "b"
       /\ existingTask[h].Completed

\* C8: MarkDone stores the record with completed = true and the title and id
\* it had; on a record that is already completed (a second call in a row) it
\* leaves the mapping as it is; the 200 response is the stored record.
C8_MarkDoneIdempotent ==
    [][\A h \in Handlers :
         /\ (pc[h] = "done_store" /\ pc'[h] = "done_unlock")
               => /\ id[h] \in DOMAIN tasks'
                  /\ tasks'[id[h]].Completed
                  /\ tasks'[id[h]].Title = tasks[id[h]].Title
                  /\ tasks'[id[h]].ID = tasks[id[h]].ID
                  /\ tasks[id[h]].Completed => tasks' = tasks
         /\ (pc[h] = "done_unlock" /\ pc'[h] = "done_respond")
               => task[h] = tasks[id[h]]
         /\ (pc[h] = "done_respond" /\ pc'[h] = "done")
               => /\ resp'[h].status = StatusOK
                  /\ resp'[h].body = Encode(task[h])
                  /\ resp'[h].body.completed]_vars

\* MarkDone runs on a task that is already completed and still has title "a"
C8_Witness ==
    \E h \in Handlers :
       /\ pc[h] = "done_store"
       /\ tasks[id[h]].Completed
       /\ tasks[id[h]].Title = "a"
       /\ task[h] = tasks[id[h]]

\* C9: Update, MarkDone and Delete of an id that is not a key of the mapping
\* take the not-found branch, answer 404 and leave the mapping and the id
\* counter as they were.
C9_NotFoundLeavesStore ==
    [][\A h \in Handlers :
         /\ (/\ pc[h] \in {"update_lookup", "delete_lookup", "done_lookup"}
             /\ pc'[h] # pc[h]
             /\ ~Exists(tasks, id[h]))
               => /\ pc'[h] \in {"update_unlock_nf", "delete_unlock_nf",
                                 "done_unlock_nf"}
                  /\ tasks' = tasks /\ nextID' = nextID
         /\ (/\ pc[h] \in {"update_unlock_nf", "delete_unlock_nf",
                           "done_unlock_nf"}
             /\ pc'[h] # pc[h])
               => /\ pc'[h] \in {"update_respond_nf", "delete_respond_nf",
                                 "done_respond_nf"}
                  /\ tasks' = tasks /\ nextID' = nextID
         /\ (/\ pc[h] \in {"update_respond_nf", "delete_respond_nf",
                           "done_respond_nf"}
             /\ pc'[h] # pc[h])
               => /\ resp'[h] = Error(MsgTaskNotFound, StatusNotFound)
                  /\ tasks' = tasks /\ nextID' = nextID]_vars

\* a request for the id of a deleted task was answered 404
C9_Witness ==
    \E h \in Handlers :
       /\ pc[h] = "done"
       /\ resp[h].status = StatusNotFound
       /\ resp[h].body = MsgTaskNotFound
       /\ deleted # {}
       /\ DOMAIN tasks = {}

\* C10: a goroutine serving a request with malformed input has answered 400
\* and holds the lock in neither mode.
C10_MalformedGets400 ==
    \A h \in Handlers :
       badInput[h] => /\ pc[h] = "done"
                      /\ resp[h].status = StatusBadRequest
                      /\ writer # h
                      /\ h \notin readers

\* the statements between Lock and Unlock, and between RLock and RUnlock
WriteSection ==
    {"create_assign", "create_store", "create_inc", "create_unlock",
     "update_lookup", "update_store", "update_unlock", "update_unlock_nf",
     "delete_lookup", "delete_delete", "delete_unlock", "delete_unlock_nf",
     "done_lookup", "done_store", "done_unlock", "done_unlock_nf"}

ReadSection == {"get_range", "get_runlock"}

Writers == {h \in Handlers : pc[h] \in WriteSection}

Readers == {h \in Handlers : pc[h] \in ReadSection}

LockDiscipline ==
    /\ Cardinality(Writers) <= 1
    /\ Writers # {} => Readers = {}
    /\ \A h \in Handlers :
          /\ pc[h] \in WriteSection <=> writer = h
          /\ pc[h] \in ReadSection <=> h \in readers

\* C11: at most one handler is inside a mutating critical section, and then
\* no ListAll handler is inside its read critical section; a handler is at a
\* statement that reads or writes the map or the counter only while it holds
\* the lock (write mode for mutations, read mode for ListAll), and the store
\* changes only by a step of the handler that holds the write lock.
C11_LockGuardsStore ==
    [][/\ LockDiscipline
       /\ LockDiscipline'
       /\ store' # store =>
             /\ writer \in Handlers
             /\ pc[writer] \in WriteSection
             /\ pc'[writer] # pc[writer]
             /\ \A g \in Handlers \ {writer} : pc'[g] = pc[g]]_vars

\* a mutation is inside its critical section while a ListAll waits for the
\* lock
C11_Witness ==
    \E h, g \in Handlers :
       /\ pc[h] = "update_store"
       /\ writer = h
       /\ pc[g] = "get_rlock"
       /\ g \notin readers

\* the records of a map, and a sequence that lists each of them once
Records(m) == {m[k] : k \in DOMAIN m}

IsListing(seq, m) ==
    /\ Len(seq) = Cardinality(DOMAIN m)
    /\ {seq[i] : i \in 1..Len(seq)} = Records(m)

\* C12: every record ListAll has copied so far is the record the map holds
\* under that id now; when ListAll releases the lock its copy lists exactly
\* the records the map holds at that instant, each once; the copy does not
\* change after the release, and the response is 200 with that copy.
C12_SnapshotIsTheMapping ==
    [][\A h \in Handlers :
         /\ pc[h] \in ReadSection =>
               \A i \in 1..Len(snapshot[h].elems) :
                  LET e == snapshot[h].elems[i]
                  IN  Exists(tasks, e.ID) /\ tasks[e.ID] = e
         /\ (pc[h] = "get_runlock" /\ pc'[h] = "get_respond") =>
               /\ IsListing(snapshot[h].elems, tasks)
               /\ snapshot'[h] = snapshot[h]
         /\ (pc[h] = "get_respond" /\ pc'[h] = "get_respond") =>
               snapshot'[h] = snapshot[h]
         /\ (pc[h] = "get_respond" /\ pc'[h] = "done") =>
               /\ resp'[h].status = StatusOK
               /\ resp'[h].body.json = "array"
               /\ resp'[h].body.items =
                     [i \in 1..Len(snapshot[h].elems) |->
                        Encode(snapshot[h].elems[i])]]_vars

\* a ListAll has copied two records while an update waits for the lock
C12_Witness ==
    \E h, g \in Handlers :
       /\ pc[h] = "get_runlock"
       /\ Len(snapshot[h].elems) = 2
       /\ pc[g] = "update_lock"

EmptyArray == [json |-> "array", items |-> <<>>]

\* C13: when the map is empty at the end of ListAll's copy, the copy is an
\* empty sequence and not nil, and GET /api/tasks answers 200 with an empty
\* array.
C13_EmptyListIsEmptyArray ==
    [][\A h \in Handlers :
         /\ (pc[h] = "get_runlock" /\ pc'[h] = "get_respond"
               /\ DOMAIN tasks = {}) =>
               /\ ~snapshot[h].isNil
               /\ snapshot[h].elems = <<>>
         /\ (pc[h] = "get_respond" /\ pc'[h] = "done"
               /\ snapshot[h].elems = <<>>) =>
               resp'[h] = [status |-> StatusOK, body |-> EmptyArray]]_vars

\* every created task was deleted, and a GET was answered 200 with []
C13_Witness ==
    \E h \in Handlers :
       /\ pc[h] = "done"
       /\ req[h].method = "GET"
       /\ resp[h] = [status |-> StatusOK, body |-> EmptyArray]
       /\ deleted # {}
       /\ DOMAIN tasks = {}

\* the serving of a request is over
Finished(h) == pc[h] \in {"done", "panicked"}

\* C14: a PUT request under /api/tasks/ whose path ends with /done has ended
\* with a response: 200 or 404 when the segment in front of /done is an
\* integer, 400 when it is not (the path /api/tasks/done included).
C14_DonePathAlwaysAnswered ==
    \A h \in Handlers :
       (Finished(h) /\ Route(req[h]) = "handleMarkTaskAsDone") =>
          /\ pc[h] = "done"
          /\ IF AtoiOk(IdSegment(req[h].path))
             THEN resp[h].status \in {StatusOK, StatusNotFound}
             ELSE resp[h] = Error(MsgBadID, StatusBadRequest)

\* the title and completed flag a request body gives
GivenTitle(body) == IF "title" \in DOMAIN body THEN body.title ELSE ""

GivenCompleted(body) ==
    IF "completed" \in DOMAIN body THEN body.completed ELSE FALSE

\* the record Create is to store under id n for the request h serves
Given(h, n) ==
    [ID |-> n, Title |-> GivenTitle(req[h].body),
     Completed |-> GivenCompleted(req[h].body)]

\* C15: a POST /api/tasks with a well-formed body is not refused; Create
\* stores under the id it allocated a record with that id and the title and
\* completed flag of the body (false when the body omits it, the id of the
\* body discarded), and answers 201 with the record it stored.
C15_CreateStoresGiven ==
    [][\A h \in Handlers :
         /\ (pc[h] = "idle" /\ pc'[h] # "idle"
               /\ Route(req'[h]) = "handleCreateTask"
               /\ DecodeOk(req'[h].body)) =>
               pc'[h] = "create_lock"
         /\ (pc[h] = "create_store" /\ pc'[h] = "create_inc") =>
               /\ task[h].ID = issued[Len(issued)]
               /\ ~Exists(tasks, task[h].ID)
               /\ Exists(tasks', task[h].ID)
               /\ tasks'[task[h].ID] = Given(h, task[h].ID)
               /\ task'[h] = Given(h, task[h].ID)
         /\ (pc[h] \in {"create_inc", "create_unlock"}) =>
               task'[h] = task[h]
         /\ (pc[h] = "create_respond" /\ pc'[h] = "done") =>
               /\ task[h].ID \in Ids(issued)
               /\ resp'[h] = [status |-> StatusCreated,
                              body   |-> Encode(Given(h, task[h].ID))]]_vars

\* a Create whose body carried an id, a title and completed = true got id 2
\* and answered with the stored record
C15_Witness ==
    \E h \in Handlers :
       /\ pc[h] = "done"
       /\ "id" \in DOMAIN req[h].body
       /\ resp[h] = [status |-> StatusCreated,
                     body   |-> [id |-> 2, title |-> "b", completed |-> TRUE]]
       /\ Exists(tasks, 2)
       /\ Encode(tasks[2]) = resp[h].body

\* C16: under fair scheduling a handler that holds the lock, in either
\* mode, releases it, and every request a handler started to serve ends
\* with a response written.
C16_EveryRequestAnswered ==
    \A h \in Handlers :
       /\ (writer = h) ~> (writer # h)
       /\ (h \in readers) ~> (h \notin readers)
       /\ (pc[h] # "idle") ~> (pc[h] = "done" /\ resp[h] # NoResponse)

\* C17: a step that writes a handler's response is taken while that handler
\* holds the lock in neither mode, before and after the step; when a
\* handler takes the lock the body of its request is already decoded into
\* its local variable, which the step leaves alone.
C17_NoResponseUnderLock ==
    [][\A h \in Handlers :
         /\ resp'[h] # resp[h] =>
               /\ writer # h /\ h \notin readers
               /\ writer' # h /\ h \notin readers'
         /\ (writer # h /\ writer' = h) =>
               /\ pc[h] \in {"create_lock", "update_lock", "delete_lock",
                             "done_lock"}
               /\ pc[h] = "create_lock" =>
                     /\ DecodeOk(req[h].body)
                     /\ task[h] = Decode(req[h].body)
                     /\ task'[h] = task[h]
               /\ pc[h] = "update_lock" =>
                     /\ DecodeOk(req[h].body)
                     /\ updatedTask[h] = Decode(req[h].body)
                     /\ updatedTask'[h] = updatedTask[h]]_vars

\* a ListAll has written its response and left the read lock while another
\* ListAll still holds it
C17_Witness ==
    \E h \in Handlers :
       /\ pc[h] = "done"
       /\ req[h].method = "GET"
       /\ resp[h].status = StatusOK
       /\ h \notin readers
       /\ readers # {}

\* C18: the id counter changes only by the nextID++ of a Create, which
\* raises it by exactly 1; every other step, of any handler, leaves it
\* unchanged, so it never decreases.
C18_CounterOnlyUp ==
    [][/\ nextID' # nextID =>
             /\ nextID' = nextID + 1
             /\ \E h \in Handlers :
                   pc[h] = "create_inc" /\ pc'[h] = "create_unlock"
       /\ \A h \in Handlers :
             (pc[h] = "create_inc" /\ pc'[h] # pc[h]) =>
                nextID' = nextID + 1]_vars

\* two tasks were created and a Delete has removed one: the counter is 3
C18_Witness ==
    \E h \in Handlers :
       /\ pc[h] = "delete_unlock"
       /\ deleted # {}
       /\ nextID = 3

\* a response equals the one the serial run owes (a list: the same records,
\* each once, in any order)
Matches(actual, due) ==
    IF "json" \in DOMAIN due.body
    THEN /\ actual.status = due.status
         /\ "json" \in DOMAIN actual.body
         /\ actual.body.json = due.body.json
         /\ Len(actual.body.items) = Cardinality(due.body.items)
         /\ {actual.body.items[i] : i \in 1..Len(actual.body.items)}
               = due.body.items
    ELSE actual = due

\* C19: whenever no mutation is inside its critical section the map and the
\* counter equal those of the serial run of the operations in the order
\* they took the lock, and every response of an operation that took the
\* lock equals the response the serial run gives it; the k-th Create in
\* that order gets id k.
C19_EquivalentToSerial ==
    /\ writer = NoHandler =>
          /\ tasks = serial.tasks
          /\ nextID = serial.nextID
    /\ \A h \in Handlers :
          /\ pc[h] \in WriteSection \cup ReadSection => owed[h] # NoResponse
          /\ (pc[h] = "done" /\ owed[h] # NoResponse) =>
                Matches(resp[h], owed[h])
    /\ \A i \in 1..Len(issued) : issued[i] = i

\* of two concurrent Creates the one of handler 2 was served first and has
\* answered what the serial run owes it, while handler 1 still waits
C19_Witness ==
    /\ pc[2] = "done"
    /\ resp[2].status = StatusCreated
    /\ resp[2] = owed[2]
    /\ pc[1] = "create_lock"

\* C20: the map changes only by the store of a Create, which adds one new
\* key, by the store of an Update or a MarkDone on id i, which keeps the
\* keys, or by the delete of a Delete on id i, which removes key i; each
\* leaves the entry under every other key as it was, and i is the id of
\* the request path.
C20_OnlyKeyTouched ==
    [][tasks' # tasks =>
         \E h \in Handlers :
            \/ /\ pc[h] = "create_store" /\ pc'[h] = "create_inc"
               /\ ~Exists(tasks, task[h].ID)
               /\ DOMAIN tasks' = DOMAIN tasks \cup {task[h].ID}
               /\ \A j \in DOMAIN tasks : tasks'[j] = tasks[j]
            \/ /\ \/ pc[h] = "update_store" /\ pc'[h] = "update_unlock"
                  \/ pc[h] = "done_store" /\ pc'[h] = "done_unlock"
               /\ id[h] = Atoi(IdSegment(req[h].path))
               /\ Exists(tasks, id[h])
               /\ DOMAIN tasks' = DOMAIN tasks
               /\ \A j \in DOMAIN tasks \ {id[h]} : tasks'[j] = tasks[j]
            \/ /\ pc[h] = "delete_delete" /\ pc'[h] = "delete_unlock"
               /\ id[h] = Atoi(IdSegment(req[h].path))
               /\ Exists(tasks, id[h])
               /\ DOMAIN tasks' = DOMAIN tasks \ {id[h]}
               /\ \A j \in DOMAIN tasks' : tasks'[j] = tasks[j]]_vars

\* a Delete has removed one of two tasks and the other is still there
C20_Witness ==
    \E h \in Handlers :
       /\ pc[h] = "delete_unlock"
       /\ ~Exists(tasks, id[h])
       /\ Cardinality(DOMAIN tasks) = 1

====
